---- MODULE Spec2Model ----
(***************************************************************************)
(* read_data_service/main.py: the token-issuance endpoint (the Secret      *)
(* Resolver get_secret_from_kong, the Token Issuer create_jwt_token, the   *)
(* handler generate_token) and the item CRUD handlers over the SQLite      *)
(* table of Item rows.                                                     *)
(*                                                                         *)
(* Datetimes are naive UTC instants counted in ticks (TicksPerSecond to    *)
(* the second) since 2038-01-19T00:00:00, the day of the expiry limit, so  *)
(* that every epoch second the model computes fits TLC's 32-bit integers.  *)
(* A python dict is a sequence of <<key, value>> pairs in insertion order. *)
(***************************************************************************)
EXTENDS Integers, Sequences, FiniteSets, TLC

VARIABLES pc, req, secret, calls, fetched, last, items, crudLast

vars == <<pc, req, secret, calls, fetched, last, items, crudLast>>

tokenVars == <<pc, req, secret, calls, fetched, last>>

crudVars == <<items, crudLast>>

(***************************************************************************)
(* Bounds of the model.                                                    *)
(***************************************************************************)
\* concurrent generate_token invocations (worker threads / processes)
NReq == 2

\* longest credential list the credential service returns
MaxRecords == 2

\* sub-second resolution of datetime.utcnow()
TicksPerSecond == 2

\* how many ticks around each interesting instant the clock is sampled
ClockSpread == 2

\* largest primary key of the item table
MaxId == 3

(***************************************************************************)
(* Program constants.                                                      *)
(***************************************************************************)
ALGORITHM == "HS256"

ACCESS_TOKEN_EXPIRE_MINUTES == 2

\* calendar.timegm of 2038-01-19T00:00:00, the origin of the model's ticks
Day0Epoch == 2147472000

\* datetime(2038, 1, 19, 3, 14, 7), in ticks since Day0
ExpiryLimit == ((3 * 60 + 14) * 60 + 7) * TicksPerSecond

\* timedelta(minutes = m), in ticks
timedelta_minutes(m) == m * 60 * TicksPerSecond

Requests == 1 .. NReq

Min(a, b) == IF a <= b THEN a ELSE b

(***************************************************************************)
(* Inputs: the caller's parameters, the clock, the credential service.     *)
(***************************************************************************)
Consumers == {"consumer-1", "ghost"}

Issuers == {"service-a", "service-b"}

\* values datetime.utcnow() can return: around (limit - window) and around
\* the limit itself, on and off whole seconds
ClockValues ==
    { ExpiryLimit - timedelta_minutes(ACCESS_TOKEN_EXPIRE_MINUTES) + d :
        d \in (0 - ClockSpread) .. ClockSpread }
    \cup { ExpiryLimit + d : d \in (0 - ClockSpread) .. ClockSpread }

\* JSON values of a credential record's fields
JStr(s) == [type |-> "string", value |-> s]

JNull == [type |-> "null"]

\* python truthiness of a JSON value: None and "" are falsy
Truthy(v) == v.type = "string" /\ v.value # ""

\* credential records of the credential service: with a secret (a string,
\* possibly empty, or null) or without the "secret" key
CredRecords ==
    { [key |-> JStr("k"), secret |-> v] :
        v \in {JStr("s3cr3t"), JStr("r0tated"), JStr(""), JNull} }
    \cup { [key |-> JStr("k")] }

CredLists == UNION { [1 .. n -> CredRecords] : n \in 0 .. MaxRecords }

\* response bodies, as response.json() returns them
Bodies == { [data |-> l] : l \in CredLists } \cup { [message |-> "Not found"] }

StatusCodes == {200, 201, 404, 500}

Responses == [status_code : StatusCodes, body : Bodies]

\* exceptions client.get raises when no response arrives
TransportErrors == {"ConnectError", "ReadError"}

(***************************************************************************)
(* python dict                                                             *)
(***************************************************************************)
DictHas(d, k) == \E i \in 1 .. Len(d) : d[i][1] = k

DictGet(d, k) == d[CHOOSE i \in 1 .. Len(d) : d[i][1] = k][2]

\* d.update({k: v})
DictUpdate(d, k, v) ==
    IF DictHas(d, k)
    THEN [i \in 1 .. Len(d) |-> IF d[i][1] = k THEN <<k, v>> ELSE d[i]]
    ELSE Append(d, <<k, v>>)

DictCount(d, k) == Cardinality({ i \in 1 .. Len(d) : d[i][1] = k })

(***************************************************************************)
(* Secret Resolver: get_secret_from_kong, from the response on.            *)
(***************************************************************************)
HTTPException(code, text) ==
    [type |-> "HTTPException", status_code |-> code, detail |-> text]

Unhandled(name) == [type |-> name]

Raise(e) == [kind |-> "raise", exc |-> e]

Return(v) == [kind |-> "return", value |-> v]

\* as get_secret_from_kong, but every upstream failure is reported as 502
get_secret_fixed_status(response) ==
    IF response.status_code # 200
    THEN Raise(HTTPException(502, "Failed to fetch secret from Kong"))
    ELSE LET kong_data == response.body
         IN  IF "data" \notin DOMAIN kong_data
             THEN Raise(Unhandled("KeyError"))
             ELSE IF Len(kong_data.data) = 0
             THEN Raise(Unhandled("IndexError"))
             ELSE IF "secret" \notin DOMAIN kong_data.data[1]
             THEN Raise(Unhandled("KeyError"))
             ELSE IF ~Truthy(kong_data.data[1].secret)
             THEN Raise(HTTPException(404,
                      "No JWT credentials found for the specified consumer"))
             ELSE Return(kong_data.data[1].secret.value)

\* as get_secret_from_kong, but the secret is read from the last record that
\* carries one (data[-1] for data[0])
get_secret_last_record(response) ==
    IF response.status_code # 200
    THEN Raise(HTTPException(response.status_code,
                             "Failed to fetch secret from Kong"))
    ELSE LET kong_data == response.body
         IN  IF "data" \notin DOMAIN kong_data
             THEN Raise(Unhandled("KeyError"))
             ELSE IF Len(kong_data.data) = 0
             THEN Raise(Unhandled("IndexError"))
             ELSE IF "secret" \notin DOMAIN kong_data.data[1]
             THEN Raise(Unhandled("KeyError"))
             ELSE IF ~Truthy(kong_data.data[1].secret)
             THEN Raise(HTTPException(404,
                      "No JWT credentials found for the specified consumer"))
             ELSE LET n == Len(kong_data.data)
                  IN  IF "secret" \in DOMAIN kong_data.data[n]
                         /\ Truthy(kong_data.data[n].secret)
                      THEN Return(kong_data.data[n].secret.value)
                      ELSE Return(kong_data.data[1].secret.value)

get_secret_from_kong(response) ==
    IF response.status_code # 200
    THEN Raise(HTTPException(response.status_code,
                             "Failed to fetch secret from Kong"))
    ELSE LET kong_data == response.body
         IN  IF "data" \notin DOMAIN kong_data
             THEN Raise(Unhandled("KeyError"))
             ELSE IF Len(kong_data.data) = 0
             THEN Raise(Unhandled("IndexError"))
             ELSE IF "secret" \notin DOMAIN kong_data.data[1]
             THEN Raise(Unhandled("KeyError"))
             ELSE IF ~Truthy(kong_data.data[1].secret)
             THEN Raise(HTTPException(404,
                      "No JWT credentials found for the specified consumer"))
             ELSE Return(kong_data.data[1].secret.value)

(***************************************************************************)
(* Token Issuer: create_jwt_token and jose's jwt.encode / jwt.decode.      *)
(***************************************************************************)
\* calendar.timegm(dt.utctimetuple()): whole epoch seconds, fraction dropped
timegm(dt) == Day0Epoch + (dt \div TicksPerSecond)

\* HMAC over header and claims, as an ideal MAC
Sign(key, headers, claims) == [key |-> key, alg |-> headers.alg, signed |-> <<headers, claims>>]

\* jwt.encode: a datetime exp becomes a NumericDate, then header.claims.signature
jwt_encode(claims, key, headers) ==
    LET numeric == IF DictHas(claims, "exp")
                   THEN DictUpdate(claims, "exp", timegm(DictGet(claims, "exp")))
                   ELSE claims
    IN  [header |-> headers, claims |-> numeric,
         signature |-> Sign(key, headers, numeric)]

\* jwt.decode's signature check: the claims, or a JWTError
jwt_decode(token, key) ==
    IF token.signature = Sign(key, token.header, token.claims)
    THEN Return(token.claims)
    ELSE Raise(Unhandled("JWTError"))

\* as ClampExpiry, with the limit one second early (03:14:06)
ClampExpiryEarly(expire) == Min(expire, ExpiryLimit - TicksPerSecond)

ClampExpiry(expire) == Min(expire, ExpiryLimit)

\* as create_jwt_token, but the validity window is not added
create_jwt_token_no_window(data, key, utcnow) ==
    LET to_encode == data
        expire    == ClampExpiry(utcnow)
        headers   == [typ |-> "JWT", alg |-> ALGORITHM]
    IN  jwt_encode(DictUpdate(to_encode, "exp", expire), key, headers)

create_jwt_token(data, key, utcnow) ==
    LET to_encode == data
        expire    == ClampExpiry(utcnow + timedelta_minutes(ACCESS_TOKEN_EXPIRE_MINUTES))
        headers   == [typ |-> "JWT", alg |-> ALGORITHM]
    IN  jwt_encode(DictUpdate(to_encode, "exp", expire), key, headers)

(***************************************************************************)
(* generate_token, one invocation per request slot.                        *)
(***************************************************************************)
NoReq == [consumer_id |-> "", iss |-> ""]

NoEvent == [op |-> "none", r |-> 0]

\* the handler's locals are gone once it has returned or raised
Finish(r) ==
    /\ pc' = [pc EXCEPT ![r] = "idle"]
    /\ req' = [req EXCEPT ![r] = NoReq]
    /\ secret' = [secret EXCEPT ![r] = ""]
    /\ calls' = [calls EXCEPT ![r] = 0]
    /\ fetched' = [fetched EXCEPT ![r] = ""]

\* the request arrives and get_secret_from_kong issues client.get(url)
SendRequest(r) ==
    /\ pc[r] = "idle"
    /\ \E c \in Consumers, i \in Issuers :
          req' = [req EXCEPT ![r] = [consumer_id |-> c, iss |-> i]]
    /\ pc' = [pc EXCEPT ![r] = "calling"]
    /\ calls' = [calls EXCEPT ![r] = calls[r] + 1]
    /\ last' = [op |-> "send", r |-> r]
    /\ UNCHANGED <<secret, fetched, crudVars>>

\* as ReceiveFrom, but a failed lookup is tried once more
ReceiveFromRetrying(r, responses) ==
    /\ pc[r] = "calling"
    /\ \E response \in responses :
          LET out == get_secret_from_kong(response)
          IN  IF out.kind = "return"
              THEN /\ last' = [op |-> "response", r |-> r, request |-> req[r],
                               response |-> response, outcome |-> out,
                               calls |-> calls[r]]
                   /\ pc' = [pc EXCEPT ![r] = "have_secret"]
                   /\ secret' = [secret EXCEPT ![r] = out.value]
                   /\ fetched' = [fetched EXCEPT ![r] = response.body.data[1].secret.value]
                   /\ UNCHANGED <<req, calls>>
              ELSE IF calls[r] < 2
              THEN /\ last' = [op |-> "send", r |-> r]
                   /\ calls' = [calls EXCEPT ![r] = calls[r] + 1]
                   /\ UNCHANGED <<pc, req, secret, fetched>>
              ELSE /\ last' = [op |-> "response", r |-> r, request |-> req[r],
                               response |-> response, outcome |-> out,
                               calls |-> calls[r]]
                   /\ Finish(r)
    /\ UNCHANGED crudVars

\* as ReceiveFrom, but the secret is kept in one module-level variable that
\* every invocation reads
ReceiveFromSharedSecret(r, responses) ==
    /\ pc[r] = "calling"
    /\ \E response \in responses :
          LET out == get_secret_from_kong(response)
          IN  /\ last' = [op |-> "response", r |-> r, request |-> req[r],
                          response |-> response, outcome |-> out,
                          calls |-> calls[r]]
              /\ IF out.kind = "return"
                 THEN /\ pc' = [pc EXCEPT ![r] = "have_secret"]
                      /\ secret' = [q \in Requests |-> out.value]
                      /\ fetched' = [fetched EXCEPT ![r] = response.body.data[1].secret.value]
                      /\ UNCHANGED <<req, calls>>
                 ELSE Finish(r)
    /\ UNCHANGED crudVars

\* client.get returns one of `responses`; lines 41-52 run on it
ReceiveFrom(r, responses) ==
    /\ pc[r] = "calling"
    /\ \E response \in responses :
          LET out == get_secret_from_kong(response)
          IN  /\ last' = [op |-> "response", r |-> r, request |-> req[r],
                          response |-> response, outcome |-> out,
                          calls |-> calls[r]]
              /\ IF out.kind = "return"
                 THEN /\ pc' = [pc EXCEPT ![r] = "have_secret"]
                      /\ secret' = [secret EXCEPT ![r] = out.value]
                      /\ fetched' = [fetched EXCEPT ![r] = response.body.data[1].secret.value]
                      /\ UNCHANGED <<req, calls>>
                 ELSE Finish(r)
    /\ UNCHANGED crudVars

\* client.get raises: the service is unreachable or the connection breaks
TransportFailure(r) ==
    /\ pc[r] = "calling"
    /\ \E e \in TransportErrors :
          last' = [op |-> "no_response", r |-> r, request |-> req[r],
                   outcome |-> Raise(Unhandled(e)), calls |-> calls[r]]
    /\ Finish(r)
    /\ UNCHANGED crudVars

\* as TimeoutExpires, with httpx.Client(timeout=None): no timeout ever expires
TimeoutNever(r) ==
    /\ FALSE
    /\ UNCHANGED vars

\* httpx.Client() carries httpx's default timeout: a call that gets no
\* answer raises a TimeoutException
TimeoutExpires(r) ==
    /\ pc[r] = "calling"
    /\ last' = [op |-> "no_response", r |-> r, request |-> req[r],
                outcome |-> Raise(Unhandled("TimeoutException")),
                calls |-> calls[r]]
    /\ Finish(r)
    /\ UNCHANGED crudVars

\* lines 72-74: the payload, create_jwt_token (the clock reads one of
\* `clock`), the reply
IssueAt(r, clock) ==
    /\ pc[r] = "have_secret"
    /\ \E utcnow \in clock :
          LET payload == << <<"iss", req[r].iss>> >>
              token   == create_jwt_token(payload, secret[r], utcnow)
          IN  last' = [op |-> "issued", r |-> r, request |-> req[r],
                       fetched |-> fetched[r], utcnow |-> utcnow,
                       token |-> token, calls |-> calls[r]]
    /\ Finish(r)
    /\ UNCHANGED crudVars

(***************************************************************************)
(* Specifications.                                                         *)
(***************************************************************************)
NoCrud == [op |-> "none"]

Init ==
    /\ pc = [r \in Requests |-> "idle"]
    /\ req = [r \in Requests |-> NoReq]
    /\ secret = [r \in Requests |-> ""]
    /\ calls = [r \in Requests |-> 0]
    /\ fetched = [r \in Requests |-> ""]
    /\ last = NoEvent
    /\ items = {}
    /\ crudLast = NoCrud

\* One worker: generate_token is an async def without an await, so the event
\* loop runs each invocation to its end before it accepts the next request.
AllIdle == \A q \in Requests : pc[q] = "idle"

ReceiveResponse(r) == ReceiveFrom(r, Responses)

IssueToken(r) == IssueAt(r, ClockValues)

Next ==
    \E r \in Requests :
        \/ AllIdle /\ SendRequest(r)
        \/ ReceiveResponse(r)
        \/ TransportFailure(r)
        \/ TimeoutExpires(r)
        \/ IssueToken(r)

Spec == Init /\ [][Next]_vars

\* Several workers: invocations interleave at the outbound call and between
\* the resolver's return and the clock read, while the credential service
\* answers each call with the secret of the moment (rotation) or an error.
RotationResponses ==
    { [status_code |-> 200, body |-> [data |-> <<[key |-> JStr("k"), secret |-> JStr(s)]>>]] :
        s \in {"s3cr3t", "r0tated"} }
    \cup { [status_code |-> 404, body |-> [message |-> "Not found"]] }

WorkerClock == { ExpiryLimit - timedelta_minutes(ACCESS_TOKEN_EXPIRE_MINUTES) }

ReceiveRotated(r) == ReceiveFrom(r, RotationResponses)

IssueInWorker(r) == IssueAt(r, WorkerClock)

ConcNext ==
    \E r \in Requests :
        \/ SendRequest(r)
        \/ ReceiveRotated(r)
        \/ TransportFailure(r)
        \/ TimeoutExpires(r)
        \/ IssueInWorker(r)

ConcSpec == Init /\ [][ConcNext]_vars

\* The handler's own steps are taken once enabled, and httpx's timeout
\* expires; nothing is assumed of the credential service.
FairSpec ==
    /\ ConcSpec
    /\ \A r \in Requests : WF_vars(TimeoutExpires(r)) /\ WF_vars(IssueInWorker(r))

(***************************************************************************)
(* The item table and its CRUD handlers.                                   *)
(***************************************************************************)
\* Item.id before the database assigns it: Field(default=None)
NoneId == 0

\* Item.description's default
NoneStr == "<None>"

ItemIds == 1 .. MaxId

\* request bodies: an Item, with or without an id
ItemInputs ==
    [id : {NoneId} \cup ItemIds, name : {"a", "b"}, description : {"d", NoneStr}]

Present(table, item_id) == \E row \in table : row.id = item_id

\* session.get(Item, item_id), for a key that is present
SessionGet(table, item_id) == CHOOSE row \in table : row.id = item_id

\* SQLite's rowid for an INTEGER PRIMARY KEY left NULL: one past the largest
NextRowId(table) ==
    IF table = {} THEN 1
    ELSE (CHOOSE m \in {row.id : row \in table} :
             \A row \in table : row.id <= m) + 1

create_item(item) ==
    /\ IF item.id = NoneId
       THEN /\ NextRowId(items) <= MaxId
            /\ items' = items \cup {[item EXCEPT !.id = NextRowId(items)]}
            /\ crudLast' = [op |-> "create", id |-> NextRowId(items), status |-> 201]
       ELSE IF Present(items, item.id)
       THEN \* IntegrityError: the commit fails and nothing is written
            /\ items' = items
            /\ crudLast' = [op |-> "create", id |-> item.id, status |-> 500]
       ELSE /\ items' = items \cup {item}
            /\ crudLast' = [op |-> "create", id |-> item.id, status |-> 201]
    /\ UNCHANGED tokenVars

read_item(item_id) ==
    /\ IF ~Present(items, item_id)
       THEN crudLast' = [op |-> "read", id |-> item_id, status |-> 404]
       ELSE crudLast' = [op |-> "read", id |-> item_id, status |-> 200,
                         item |-> SessionGet(items, item_id)]
    /\ items' = items
    /\ UNCHANGED tokenVars

\* as update_item, but the row also takes the id of the request body
update_item_takes_body_id(item_id, item) ==
    /\ IF ~Present(items, item_id)
       THEN /\ crudLast' = [op |-> "update", id |-> item_id, status |-> 404]
            /\ items' = items
       ELSE LET existing_item == SessionGet(items, item_id)
                updated == [existing_item EXCEPT !.id = item.id,
                                                 !.name = item.name,
                                                 !.description = item.description]
            IN  /\ items' = (items \ {existing_item}) \cup {updated}
                /\ crudLast' = [op |-> "update", id |-> item_id, status |-> 200,
                                body |-> item, item |-> updated]
    /\ UNCHANGED tokenVars

update_item(item_id, item) ==
    /\ IF ~Present(items, item_id)
       THEN /\ crudLast' = [op |-> "update", id |-> item_id, status |-> 404]
            /\ items' = items
       ELSE LET existing_item == SessionGet(items, item_id)
                updated == [existing_item EXCEPT !.name = item.name,
                                                 !.description = item.description]
            IN  /\ items' = (items \ {existing_item}) \cup {updated}
                /\ crudLast' = [op |-> "update", id |-> item_id, status |-> 200,
                                body |-> item, item |-> updated]
    /\ UNCHANGED tokenVars

delete_item(item_id) ==
    /\ IF ~Present(items, item_id)
       THEN /\ crudLast' = [op |-> "delete", id |-> item_id, status |-> 404]
            /\ items' = items
       ELSE /\ items' = items \ {SessionGet(items, item_id)}
            /\ crudLast' = [op |-> "delete", id |-> item_id, status |-> 204]
    /\ UNCHANGED tokenVars

CrudNext ==
    \/ \E item \in ItemInputs : create_item(item)
    \/ \E item_id \in ItemIds : read_item(item_id)
    \/ \E item_id \in ItemIds, item \in ItemInputs : update_item(item_id, item)
    \/ \E item_id \in ItemIds : delete_item(item_id)

CrudSpec == Init /\ [][CrudNext]_vars

(***************************************************************************)
(* The claims.  `last` is the most recent step of a generate_token         *)
(* invocation: what the credential service answered, what the resolver     *)
(* made of it, what the handler returned.  fetched[r] is the first secret  *)
(* of the response delivered to invocation r's own call.                   *)
(***************************************************************************)
\* 2038-01-19T03:14:07Z, the largest signed 32-bit epoch second
CeilingEpoch == 2147483647

CeilingTicks == (CeilingEpoch - Day0Epoch) * TicksPerSecond

ValidityTicks == timedelta_minutes(ACCESS_TOKEN_EXPIRE_MINUTES)

\* an epoch second as ticks since Day0
EpochToTicks(sec) == (sec - Day0Epoch) * TicksPerSecond

IsSuccess(code) == code \in 200 .. 299

\* the body is a credential list whose first record has a non-empty secret
FirstSecretPresent(body) ==
    /\ "data" \in DOMAIN body
    /\ Len(body.data) >= 1
    /\ "secret" \in DOMAIN body.data[1]
    /\ body.data[1].secret.type = "string"
    /\ body.data[1].secret.value # ""

\* the spec's error taxonomy, as the caller sees it
ErrorKind(exc) ==
    IF exc.type = "HTTPException"
    THEN IF exc.detail = "Failed to fetch secret from Kong" THEN "UpstreamError"
         ELSE IF exc.status_code = 404 THEN "NotFoundError"
         ELSE "Unclassified"
    ELSE IF exc.type \in {"JWTError", "JWSError"} THEN "EncodingError"
    ELSE "Unclassified"

DecodedWithFetched == jwt_decode(last.token, last.fetched)

DecodedOk ==
    /\ DecodedWithFetched.kind = "return"
    /\ DictHas(DecodedWithFetched.value, "iss")
    /\ DictGet(DecodedWithFetched.value, "iss") = last.request.iss
    /\ DictHas(DecodedWithFetched.value, "exp")

DecodedExp == DictGet(DecodedWithFetched.value, "exp")

\* C1 as stated: every issued token, decoded with the secret the credential
\* service returned, yields the caller's iss and an exp strictly after the
\* issuance time and no later than min(issuance + 2 minutes, the ceiling).
C1_ExpAlwaysAfterIssuance ==
    last.op = "issued" =>
        /\ DecodedOk
        /\ EpochToTicks(DecodedExp) > last.utcnow
        /\ EpochToTicks(DecodedExp) <= Min(last.utcnow + ValidityTicks, CeilingTicks)

\* C1 amended: the token decodes to the caller's iss and an exp no later than
\* min(issuance + 2 minutes, the ceiling); exp is strictly after the issuance
\* time whenever the token is issued before the ceiling.
C1_ExpBounds ==
    last.op = "issued" =>
        /\ DecodedOk
        /\ (last.utcnow < CeilingTicks => EpochToTicks(DecodedExp) > last.utcnow)
        /\ EpochToTicks(DecodedExp) <= Min(last.utcnow + ValidityTicks, CeilingTicks)

C1_Witness ==
    /\ last.op = "issued"
    /\ last.utcnow < CeilingTicks
    /\ last.utcnow + ValidityTicks > CeilingTicks
    /\ DecodedOk

\* C2: every issued token carries exactly one exp claim, never past the
\* ceiling: the ceiling itself when now + window exceeds it, and otherwise the
\* computed expiry (as a NumericDate, in whole seconds).
C2_ExpClamped ==
    last.op = "issued" =>
        /\ DictCount(last.token.claims, "exp") = 1
        /\ DictGet(last.token.claims, "exp") <= CeilingEpoch
        /\ IF last.utcnow + ValidityTicks > CeilingTicks
           THEN DictGet(last.token.claims, "exp") = CeilingEpoch
           ELSE DictGet(last.token.claims, "exp")
                    = Day0Epoch + ((last.utcnow + ValidityTicks) \div TicksPerSecond)

C2_Witness ==
    /\ last.op = "issued"
    /\ last.utcnow + ValidityTicks > CeilingTicks
    /\ DictGet(last.token.claims, "exp") = CeilingEpoch

\* C3: a non-success status of the credential service ends the invocation
\* with the upstream error carrying exactly that status, and without a token.
C3_UpstreamStatusPropagated ==
    (last.op = "response" /\ ~IsSuccess(last.response.status_code)) =>
        /\ last.outcome.kind = "raise"
        /\ last.outcome.exc.type = "HTTPException"
        /\ last.outcome.exc.status_code = last.response.status_code
        /\ ErrorKind(last.outcome.exc) = "UpstreamError"
        /\ pc[last.r] = "idle"
        /\ secret[last.r] = ""

C3_Witness ==
    /\ last.op = "response"
    /\ last.response.status_code = 404
    /\ last.request.consumer_id = "ghost"
    /\ last.outcome.kind = "raise"

\* C4 as stated: a 200 response whose first secret is empty or absent (empty
\* string, null, no "secret" key, no first record, no list) ends the
\* invocation with the 404 not-found error.
C4_EmptyOrAbsentIsNotFound ==
    (/\ last.op = "response"
     /\ last.response.status_code = 200
     /\ ~FirstSecretPresent(last.response.body)) =>
        /\ last.outcome.kind = "raise"
        /\ last.outcome.exc.type = "HTTPException"
        /\ last.outcome.exc.status_code = 404

\* C5 as stated: any success status with a list whose first record has a
\* non-empty secret makes the resolver return that first secret.
C5_AnySuccessReturnsFirstSecret ==
    (/\ last.op = "response"
     /\ IsSuccess(last.response.status_code)
     /\ FirstSecretPresent(last.response.body)) =>
        /\ last.outcome = Return(last.response.body.data[1].secret.value)
        /\ pc[last.r] = "have_secret"
        /\ secret[last.r] = last.response.body.data[1].secret.value

\* C5 amended: status 200 with a list whose first record has a non-empty
\* secret makes the resolver return that first secret, whatever follows it.
C5_Status200ReturnsFirstSecret ==
    (/\ last.op = "response"
     /\ last.response.status_code = 200
     /\ FirstSecretPresent(last.response.body)) =>
        /\ last.outcome = Return(last.response.body.data[1].secret.value)
        /\ pc[last.r] = "have_secret"
        /\ secret[last.r] = last.response.body.data[1].secret.value

C5_Witness ==
    /\ last.op = "response"
    /\ last.response.status_code = 200
    /\ FirstSecretPresent(last.response.body)
    /\ Len(last.response.body.data) >= 2
    /\ "secret" \in DOMAIN last.response.body.data[2]
    /\ Truthy(last.response.body.data[2].secret)
    /\ last.response.body.data[2].secret # last.response.body.data[1].secret
    /\ secret[last.r] = last.response.body.data[1].secret.value

\* C6: an invocation makes exactly one outbound call: one while it runs, one
\* when it ends (with a token, an error status or a transport failure), and
\* the secret it holds is the one its own call fetched.
C6_OneCallPerInvocation ==
    /\ \A r \in Requests :
          /\ pc[r] = "idle" => calls[r] = 0 /\ secret[r] = ""
          /\ pc[r] # "idle" => calls[r] = 1
          /\ pc[r] = "have_secret" => secret[r] = fetched[r]
    /\ last.op \in {"response", "no_response", "issued"} => last.calls = 1

C6_Witness ==
    /\ last.op = "response"
    /\ last.outcome.kind = "raise"
    /\ last.calls = 1
    /\ pc[last.r] = "idle"

\* C7 as stated, its particular case: when the outbound request raises
\* instead of returning a response, the invocation fails with UpstreamError.
C7_UnreachableIsUpstreamError ==
    last.op = "no_response" =>
        /\ last.outcome.kind = "raise"
        /\ ErrorKind(last.outcome.exc) = "UpstreamError"

\* C8: every invocation that has issued its outbound call eventually ends,
\* whether or not the credential service ever answers.
C8_EveryRequestCompletes ==
    \A r \in Requests : (pc[r] # "idle") ~> (pc[r] = "idle")

C8_Witness ==
    /\ last.op = "no_response"
    /\ last.outcome.exc.type = "TimeoutException"
    /\ pc[last.r] = "idle"

\* C9: under any interleaving, the secret an invocation holds is the one the
\* credential service returned to its own call, an idle slot holds none, and
\* the issued token verifies under that secret and carries its own iss.
C9_OwnSecretOnly ==
    /\ \A r \in Requests :
          /\ pc[r] = "have_secret" => secret[r] = fetched[r]
          /\ pc[r] \in {"idle", "calling"} => secret[r] = ""
    /\ last.op = "issued" => DecodedOk

C9_Witness ==
    \E r \in Requests, q \in Requests :
        /\ r # q
        /\ pc[r] = "have_secret"
        /\ pc[q] = "have_secret"
        /\ req[r].consumer_id = req[q].consumer_id
        /\ secret[r] # secret[q]

\* C10: read, update and delete of an absent identifier answer 404 and leave
\* the table as it was; a deleted identifier is gone, and an identifier comes
\* into the table only by a successful create; an update of a present
\* identifier keeps the set of identifiers and every other row, and gives the
\* row the name and description of the request.
C10_StoreSteps ==
    [][ /\ (crudLast'.op \in {"read", "update", "delete"}
              /\ ~Present(items, crudLast'.id))
            => (crudLast'.status = 404 /\ items' = items)
        /\ (crudLast'.op = "delete" /\ Present(items, crudLast'.id))
            => /\ crudLast'.status = 204
               /\ ~Present(items', crudLast'.id)
               /\ items' = { row \in items : row.id # crudLast'.id }
        /\ \A i \in ItemIds :
              (~Present(items, i) /\ Present(items', i))
                 => (crudLast'.op = "create" /\ crudLast'.status = 201
                       /\ crudLast'.id = i)
        /\ (crudLast'.op = "update" /\ Present(items, crudLast'.id))
            => /\ crudLast'.status = 200
               /\ {row.id : row \in items'} = {row.id : row \in items}
               /\ Cardinality(items') = Cardinality(items)
               /\ \A row \in items : row.id # crudLast'.id => row \in items'
               /\ \E row \in items' :
                     /\ row.id = crudLast'.id
                     /\ row.name = crudLast'.body.name
                     /\ row.description = crudLast'.body.description
                     /\ row = crudLast'.item
      ]_vars

C10_Witness ==
    /\ crudLast.op = "delete"
    /\ crudLast.status = 404
    /\ Cardinality(items) >= 2

====
